---- MODULE Spec2Model ----
(***************************************************************************)
(* Model of deltadump's text_utils.py: the split / init / compile / update *)
(* tasks acting on the JSON files of the working tree.                     *)
(*                                                                         *)
(* A JSON object is an ordered dict: a sequence of <<key, value>> pairs    *)
(* with pairwise different keys, in insertion order.  A str made of digits *)
(* and "_" is a sequence of characters: the digit d is the number d and    *)
(* "_" is Underscore, which sorts after every digit as in Python.          *)
(***************************************************************************)
EXTENDS Integers, Sequences, FiniteSets, TLC

(* ---------------------------------------------------------------------- *)
(* Program constants                                                       *)
(* ---------------------------------------------------------------------- *)
CHAPTERS == <<"1", "2", "3", "4">>
LANGS == <<"en", "ja">>
BASE_LANG == "en"
L10N_LANG == "vi"
L10N_CHAPTER == "1"
PadWidth == 16
Underscore == 10

ChapterSet == {CHAPTERS[i] : i \in 1..Len(CHAPTERS)}
LangSet == {LANGS[i] : i \in 1..Len(LANGS)}
AllLangs == LangSet \cup {L10N_LANG}

(* ---------------------------------------------------------------------- *)
(* Bounds of the model                                                     *)
(* ---------------------------------------------------------------------- *)
MaxKeys == 4
MaxUpdates == 1
MaxEdits == 1

(* ---------------------------------------------------------------------- *)
(* Ordered dicts                                                           *)
(* ---------------------------------------------------------------------- *)
KeySet(d) == {d[i][1] : i \in 1..Len(d)}
DictHas(d, k) == \E i \in 1..Len(d) : d[i][1] = k
DictGet(d, k) == d[CHOOSE i \in 1..Len(d) : d[i][1] = k][2]
DictSet(d, k, v) ==
    IF DictHas(d, k)
    THEN [i \in 1..Len(d) |-> IF d[i][1] = k THEN <<k, v>> ELSE d[i]]
    ELSE Append(d, <<k, v>>)

(* ---------------------------------------------------------------------- *)
(* Files of a directory: a function from the names present to contents     *)
(* ---------------------------------------------------------------------- *)
NoFiles == [n \in {} |-> <<>>]
\* the file opened in append mode: the new text follows the old
dict2file_append(dir, in_dict, out_file) ==
    [n \in DOMAIN dir \cup {out_file} |->
        IF n = out_file
        THEN (IF out_file \in DOMAIN dir THEN dir[out_file] ELSE <<>>) \o in_dict
        ELSE dir[n]]

dict2file(dir, in_dict, out_file) ==
    [n \in DOMAIN dir \cup {out_file} |-> IF n = out_file THEN in_dict ELSE dir[n]]
rmfile(dir, file) == [n \in DOMAIN dir \ {file} |-> dir[n]]
file2dict(dir, in_file) == dir[in_file]

(* ---------------------------------------------------------------------- *)
(* str helpers                                                             *)
(* ---------------------------------------------------------------------- *)
RECURSIVE Str(_)
Str(n) == IF n < 10 THEN <<n>> ELSE Str(n \div 10) \o <<n % 10>>

isdigit(piece) == Len(piece) > 0 /\ \A i \in 1..Len(piece) : piece[i] \in 0..9

rjust(piece, width) ==
    IF Len(piece) >= width THEN piece
    ELSE [i \in 1..width |-> IF i <= width - Len(piece) THEN 0
                             ELSE piece[i - (width - Len(piece))]]

RECURSIVE split(_, _)
split(s, sep) ==
    IF \E i \in 1..Len(s) : s[i] = sep
    THEN LET i == CHOOSE i \in 1..Len(s) :
                     s[i] = sep /\ \A j \in 1..(i - 1) : s[j] # sep
         IN <<SubSeq(s, 1, i - 1)>> \o split(SubSeq(s, i + 1, Len(s)), sep)
    ELSE <<s>>

\* Python's < on str: the first different character decides, a proper prefix is less
StrLess(a, b) ==
    \E i \in 1..Len(b) :
        /\ i - 1 <= Len(a)
        /\ \A j \in 1..(i - 1) : a[j] = b[j]
        /\ (i > Len(a) \/ a[i] < b[i])

\* Python's < on lists of str
ListLess(a, b) ==
    \E i \in 1..Len(b) :
        /\ i - 1 <= Len(a)
        /\ \A j \in 1..(i - 1) : a[j] = b[j]
        /\ (i > Len(a) \/ StrLess(a[i], b[i]))

smartsort(k_and_v) ==
    LET pieces == split(k_and_v[1], Underscore)
    IN [i \in 1..Len(pieces) |->
           IF isdigit(pieces[i]) THEN rjust(pieces[i], PadWidth) ELSE pieces[i]]

\* sorted(items, key=smartsort): stable, ascending
RECURSIVE sorted(_)
sorted(items) ==
    IF items = <<>> THEN <<>>
    ELSE LET rest == sorted(SubSeq(items, 1, Len(items) - 1))
             x == items[Len(items)]
             pos == Cardinality({i \in 1..Len(rest) :
                                    ~ListLess(smartsort(x), smartsort(rest[i]))})
         IN SubSeq(rest, 1, pos) \o <<x>> \o SubSeq(rest, pos + 1, Len(rest))

(* ---------------------------------------------------------------------- *)
(* split_dump, one chapter                                                 *)
(* A Raw Source Map is a sequence of <<key, location>>, a location being   *)
(* <<filename, lineno>>: the two parts of "filename:lineno".               *)
(* ---------------------------------------------------------------------- *)
ch_dup_map(raw_sm) ==
    [v \in {raw_sm[i][2] : i \in 1..Len(raw_sm)} |->
        Cardinality({i \in 1..Len(raw_sm) : raw_sm[i][2] = v})]

next_dupecount(dupecount, count) == IF count > 1 THEN dupecount + 1 ELSE 0

\* the first key of a shared location left at the bare line, the next at "_1"
position_from_bare(lineno, dupecount, count) ==
    IF count > 1 /\ dupecount > 1
    THEN lineno \o <<Underscore>> \o Str(dupecount - 1) ELSE lineno

position(lineno, dupecount, count) ==
    IF count > 1 THEN lineno \o <<Underscore>> \o Str(dupecount) ELSE lineno

RECURSIVE rebuild(_, _, _, _, _)
rebuild(raw_sm, dups, i, ch_sourcemap, dupecount) ==
    IF i > Len(raw_sm) THEN ch_sourcemap
    ELSE LET k == raw_sm[i][1]
             v == raw_sm[i][2]
             filename == v[1]
             count == dups[v]
             dc == next_dupecount(dupecount, count)
             lineno == position(v[2], dc, count)
             ch_objfile == IF DictHas(ch_sourcemap, filename)
                           THEN DictGet(ch_sourcemap, filename) ELSE <<>>
         IN rebuild(raw_sm, dups, i + 1,
                    DictSet(ch_sourcemap, filename, DictSet(ch_objfile, lineno, k)),
                    dc)

new_sourcemap(raw_sm) ==
    LET built == rebuild(raw_sm, ch_dup_map(raw_sm), 1, <<>>, 0)
    IN [i \in 1..Len(built) |-> <<built[i][1], sorted(built[i][2])>>]

\* filename.removesuffix(".gml") + ".json", on the file names of the model
FILES == <<"f.gml", "g.gml">>
OBJ_FILES == <<"f.json", "g.json">>
ORPHAN_FILE == "orphan.json"
obj_file_name(filename) ==
    OBJ_FILES[CHOOSE i \in 1..Len(FILES) : FILES[i] = filename]

dict_update(d, e) ==
    LET RECURSIVE upd(_, _)
        upd(acc, i) == IF i > Len(e) THEN acc
                       ELSE upd(DictSet(acc, e[i][1], e[i][2]), i + 1)
    IN upd(d, 1)

\* lines 108-115: the strings of one source file, in the order of its positions
obj_strings(file_map, raw_strings) ==
    LET RECURSIVE go(_, _)
        go(acc, i) ==
            IF i > Len(file_map) THEN acc
            ELSE LET v == file_map[i][2]
                 IN IF DictHas(raw_strings, v)
                    THEN go(DictSet(acc, v, DictGet(raw_strings, v)), i + 1)
                    ELSE go(acc, i + 1)
    IN go(<<>>, 1)

\* lines 116-119
write_obj(dir, strs, obj_file) ==
    IF strs = <<>> THEN rmfile(dir, obj_file) ELSE dict2file(dir, strs, obj_file)

\* lines 106-119: every file of the chapter's new source map, in its order
RECURSIVE split_files(_, _, _, _, _)
split_files(ch_sm, raw_strings, i, dir, lang_strings) ==
    IF i > Len(ch_sm) THEN [dir |-> dir, lang_strings |-> lang_strings]
    ELSE LET strs == obj_strings(ch_sm[i][2], raw_strings)
         IN split_files(ch_sm, raw_strings, i + 1,
                        write_obj(dir, strs, obj_file_name(ch_sm[i][1])),
                        dict_update(lang_strings, strs))

\* the "date" test left out
lang_orphan_with_date(raw_strings, lang_strings) ==
    SelectSeq(raw_strings, LAMBDA e : ~DictHas(lang_strings, e[1]))

\* lines 122-131
lang_orphan(raw_strings, lang_strings) ==
    SelectSeq(raw_strings,
              LAMBDA e : ~DictHas(lang_strings, e[1]) /\ e[1] # "date")

\* lines 132-135
write_orphan(dir, orphan) ==
    IF orphan # <<>> THEN dict2file(dir, orphan, ORPHAN_FILE)
    ELSE rmfile(dir, ORPHAN_FILE)

\* lines 101-135: one language of one chapter; dir is the obj directory before
split_lang(ch_sm, raw_strings, dir) ==
    LET r == split_files(ch_sm, raw_strings, 1, dir, <<>>)
    IN write_orphan(r.dir, lang_orphan(raw_strings, r.lang_strings))

(* ---------------------------------------------------------------------- *)
(* Inputs: the dumps lang.json and sourcemap.json can hold                 *)
(* ---------------------------------------------------------------------- *)
KeyUniverse == <<"A", "B", "C", "D", "E", "F">>
Lines == {9, 10}
FileSet == {FILES[i] : i \in 1..Len(FILES)}
Locations == {<<f, Str(n)>> : f \in FileSet, n \in Lines}
Truncated == <<>>

Text(lang, k) == <<lang, k>>
DateText == <<"date", "dump">>

\* Raw Source Maps over the keys i..n of the universe, each key at most once,
\* every location free.  The keys are string keys of the game code: the reserved
\* "date" field is in the Raw String Maps only.
RECURSIVE RawSourceMaps(_, _, _)
RawSourceMaps(i, n, locs) ==
    IF i > n THEN {<<>>}
    ELSE LET rest == RawSourceMaps(i + 1, n, locs)
         IN rest \cup {<<<<KeyUniverse[i], l>>>> \o r : l \in locs, r \in rest}

\* A Raw String Map of one language: "date", then the keys of `present`
RawStrings(lang, n, present) ==
    <<<<"date", DateText>>>> \o
    SelectSeq([i \in 1..n |-> <<KeyUniverse[i], Text(lang, KeyUniverse[i])>>],
              LAMBDA e : e[1] \in present)

Keys(n) == {KeyUniverse[i] : i \in 1..n}
\* the key sets a language can hold: all the keys, or all but one
KeyChoices(n) == {Keys(n)} \cup {Keys(n) \ {k} : k \in Keys(n)}

OtherSourceMap == <<<<"A", <<"f.gml", Str(9)>>>>>>
OtherStrings(lang) == RawStrings(lang, 1, {"A"})

SourcemapDoc(sm) ==
    [c \in ChapterSet |-> IF c = L10N_CHAPTER THEN sm ELSE OtherSourceMap]
LangDoc(en, ja) ==
    [c \in ChapterSet |->
        IF c = L10N_CHAPTER THEN [l \in LangSet |-> IF l = BASE_LANG THEN en ELSE ja]
        ELSE [l \in LangSet |-> OtherStrings(l)]]

SplitSourcemapDocs == {SourcemapDoc(sm) : sm \in RawSourceMaps(1, MaxKeys, Locations)}
SplitLangDocs ==
    {LangDoc(RawStrings("en", MaxKeys, p), RawStrings("ja", MaxKeys, q)) :
        <<p, q>> \in {<<p, q>> \in KeyChoices(MaxKeys) \X KeyChoices(MaxKeys) :
                         q = p \/ q = Keys(MaxKeys)}}

(* ---------------------------------------------------------------------- *)
(* State                                                                   *)
(* ---------------------------------------------------------------------- *)
VARIABLES
    lang_json,       \* content of lang.json (Truncated: an empty file)
    sourcemap_json,  \* content of sourcemap.json
    dirs,            \* the <<chapter, lang>> whose obj directory exists
    objs,            \* <<chapter, lang>> -> the files of chapter<N>/<lang>/obj
    sourcemaps,      \* chapter -> content of chapter<N>/sourcemap.json, if written
    new_lang_file,   \* content of the compiled language file (<<>>: not written)
    pc,              \* position of the running task ("idle": none)
    synced,          \* split_dump has completed on the present lang.json/sourcemap.json
    updates,         \* update tasks started
    last             \* what the last finished task did and reported

vars == <<lang_json, sourcemap_json, dirs, objs, sourcemaps, new_lang_file,
          pc, synced, updates, last>>

ObjDirs == ChapterSet \X AllLangs

NoOutputs ==
    /\ dirs = {}
    /\ objs = [p \in ObjDirs |-> NoFiles]
    /\ sourcemaps = NoFiles
    /\ new_lang_file = <<>>
    /\ pc = "idle"
    /\ synced = FALSE
    /\ updates = 0
    /\ last = [task |-> "none"]

(* ---------------------------------------------------------------------- *)
(* split_dump                                                              *)
(* ---------------------------------------------------------------------- *)
split_objs(raw_lang, raw_sourcemap, old) ==
    [p \in ObjDirs |->
        IF p[2] \in LangSet
        THEN split_lang(new_sourcemap(raw_sourcemap[p[1]]), raw_lang[p[1]][p[2]], old[p])
        ELSE old[p]]

split_dump ==
    /\ pc \in {"idle", "fetched"}
    /\ IF lang_json = Truncated \/ sourcemap_json = Truncated
       THEN \* file2dict raises on an empty file: nothing was written yet
            /\ last' = [task |-> "split", ok |-> FALSE]
            /\ UNCHANGED <<dirs, objs, sourcemaps, synced>>
       ELSE /\ dirs' = dirs \cup (ChapterSet \X LangSet)
            /\ sourcemaps' = [c \in ChapterSet |-> new_sourcemap(sourcemap_json[c])]
            /\ objs' = split_objs(lang_json, sourcemap_json, objs)
            /\ synced' = TRUE
            /\ last' = [task |-> "split", ok |-> TRUE, rerun |-> synced]
    /\ pc' = "idle"
    /\ UNCHANGED <<lang_json, sourcemap_json, new_lang_file, updates>>

InitSplit ==
    /\ lang_json \in SplitLangDocs
    /\ sourcemap_json \in SplitSourcemapDocs
    /\ NoOutputs

SpecSplit == InitSplit /\ [][split_dump]_vars

(* ---------------------------------------------------------------------- *)
(* init_lang                                                               *)
(* ---------------------------------------------------------------------- *)
\* the stale target files left in place
init_chapter_no_prune(base, target) ==
    [n \in DOMAIN target \cup DOMAIN base |->
        IF n \in DOMAIN target THEN target[n] ELSE <<>>]

\* lines 193-202, one chapter: base and target are the files of the two obj
\* directories
init_chapter(base, target) ==
    LET ls_base == DOMAIN base
        ls_new == DOMAIN target
        diff == {i \in ls_new : i \notin ls_base}
    IN [n \in (ls_new \cup ls_base) \ diff |->
           IF n \in ls_new THEN target[n] ELSE <<>>]

\* the chapters in order up to the first whose base obj directory is missing:
\* iterdir raises there, after the mkdir of the target directory
RECURSIVE init_chapters(_, _, _)
init_chapters(i, ds, os) ==
    IF i > Len(CHAPTERS) THEN [ok |-> TRUE, dirs |-> ds, objs |-> os]
    ELSE LET c == CHAPTERS[i]
             made == ds \cup {<<c, L10N_LANG>>}
         IN IF <<c, BASE_LANG>> \notin ds
            THEN [ok |-> FALSE, dirs |-> made, objs |-> os]
            ELSE init_chapters(i + 1, made,
                     [os EXCEPT ![<<c, L10N_LANG>>] =
                         init_chapter(os[<<c, BASE_LANG>>], os[<<c, L10N_LANG>>])])

init_lang ==
    /\ pc = "idle"
    /\ LET r == init_chapters(1, dirs, objs)
           target(os, c) == DOMAIN os[<<c, L10N_LANG>>]
       IN /\ dirs' = r.dirs
          /\ objs' = r.objs
          /\ last' = [task |-> "init", ok |-> r.ok,
                      created |-> UNION {{<<c, n>> : n \in target(r.objs, c) \ target(objs, c)} :
                                             c \in ChapterSet},
                      deleted |-> UNION {{<<c, n>> : n \in target(objs, c) \ target(r.objs, c)} :
                                             c \in ChapterSet}]
    /\ UNCHANGED <<lang_json, sourcemap_json, sourcemaps, new_lang_file, pc,
                   synced, updates>>

(* ---------------------------------------------------------------------- *)
(* compile_lang                                                            *)
(* ---------------------------------------------------------------------- *)
DATE == <<"date", "now">>

\* lines 160-164: the base keys the target object holds
translated_keys(baselang_obj, newlang_obj) ==
    {i \in 1..Len(baselang_obj) : DictHas(newlang_obj, baselang_obj[i][1])}

merge_obj(baselang_obj, newlang_obj) ==
    [i \in 1..Len(baselang_obj) |->
        IF DictHas(newlang_obj, baselang_obj[i][1])
        THEN <<baselang_obj[i][1], DictGet(newlang_obj, baselang_obj[i][1])>>
        ELSE baselang_obj[i]]

\* lines 154-165: the base object files in the order iterdir yields them
RECURSIVE compile_objs(_, _, _, _, _, _)
compile_objs(order, i, base, target, new_lang_dict, count_translated) ==
    IF i > Len(order)
    THEN [new_lang_dict |-> new_lang_dict, count_translated |-> count_translated]
    ELSE LET baselang_obj == file2dict(base, order[i])
             newlang_obj == IF order[i] \in DOMAIN target
                            THEN file2dict(target, order[i]) ELSE <<>>
         IN compile_objs(order, i + 1, base, target,
                dict_update(new_lang_dict, merge_obj(baselang_obj, newlang_obj)),
                count_translated
                    + Cardinality(translated_keys(baselang_obj, newlang_obj)))

\* int((count_translated / count_all) * 100): equal to the integer quotient for
\* the counts the model reaches (count_all below 10)
l10n_progress(count_translated, count_all) == (count_translated * 100) \div count_all

Orders(S) == {o \in [1..Cardinality(S) -> S] : \A a, b \in DOMAIN o : a # b => o[a] # o[b]}

compile_lang(lang, chapter) ==
    /\ pc = "idle"
    /\ dirs' = dirs \cup {<<chapter, lang>>}
    /\ IF <<chapter, BASE_LANG>> \notin dirs
       THEN \* iterdir of the missing base directory raises
            /\ last' = [task |-> "compile", ok |-> FALSE]
            /\ UNCHANGED new_lang_file
       ELSE \E order \in Orders(DOMAIN objs[<<chapter, BASE_LANG>>]) :
              LET r == compile_objs(order, 1, objs[<<chapter, BASE_LANG>>],
                                    objs[<<chapter, lang>>], <<<<"date", DATE>>>>, 0)
                  count_all == Len(r.new_lang_dict) - 1
              IN IF count_all = 0
                 THEN \* ZeroDivisionError, before the file is written
                      /\ last' = [task |-> "compile", ok |-> FALSE]
                      /\ UNCHANGED new_lang_file
                 ELSE /\ new_lang_file' = r.new_lang_dict
                      /\ last' = [task |-> "compile", ok |-> TRUE,
                                  count_translated |-> r.count_translated,
                                  count_all |-> count_all,
                                  l10n_progress |->
                                      l10n_progress(r.count_translated, count_all)]
    /\ UNCHANGED <<lang_json, sourcemap_json, objs, sourcemaps, pc, synced, updates>>

(* ---------------------------------------------------------------------- *)
(* update: fetch_dump(["lang.json", "sourcemap.json"]), then split_dump    *)
(* ---------------------------------------------------------------------- *)
\* the dumps the remote can serve: two keys, one line in each file
FETCH_KEYS == <<"A", "B">>
MaxFetchKeys == Len(FETCH_KEYS)
FetchLocations == {<<f, Str(9)>> : f \in FileSet}
FetchSourcemapDocs ==
    {SourcemapDoc(sm) : sm \in RawSourceMaps(1, MaxFetchKeys, FetchLocations)}
FetchLangDocs ==
    {LangDoc(RawStrings("en", MaxFetchKeys, p), RawStrings("ja", MaxFetchKeys, p)) :
        p \in KeyChoices(MaxFetchKeys)}

\* line 182: open(filename, "w") empties the file before the request is made
open_lang_json ==
    /\ pc = "idle"
    /\ updates < MaxUpdates
    /\ updates' = updates + 1
    /\ last' = [task |-> "fetch", filename |-> "lang.json", before |-> lang_json,
                failed |-> FALSE]
    /\ lang_json' = Truncated
    /\ synced' = FALSE
    /\ pc' = "fetch_lang"
    /\ UNCHANGED <<sourcemap_json, dirs, objs, sourcemaps, new_lang_file>>

open_sourcemap_json ==
    /\ pc = "lang_written"
    /\ last' = [task |-> "fetch", filename |-> "sourcemap.json",
                before |-> sourcemap_json, failed |-> FALSE]
    /\ sourcemap_json' = Truncated
    /\ pc' = "fetch_sourcemap"
    /\ UNCHANGED <<lang_json, dirs, objs, sourcemaps, new_lang_file, synced, updates>>

\* line 183, the request answered: the body is written
urlopen_ok ==
    /\ \/ /\ pc = "fetch_lang"
          /\ lang_json' \in FetchLangDocs
          /\ pc' = "lang_written"
          /\ UNCHANGED sourcemap_json
       \/ /\ pc = "fetch_sourcemap"
          /\ sourcemap_json' \in FetchSourcemapDocs
          /\ pc' = "fetched"
          /\ UNCHANGED lang_json
    /\ UNCHANGED <<dirs, objs, sourcemaps, new_lang_file, synced, updates, last>>

\* line 183, urlopen raises (network error, timeout, HTTP error): the task ends
urlopen_raises ==
    /\ pc \in {"fetch_lang", "fetch_sourcemap"}
    /\ last' = [last EXCEPT !.failed = TRUE]
    /\ pc' = "idle"
    /\ UNCHANGED <<lang_json, sourcemap_json, dirs, objs, sourcemaps,
                   new_lang_file, synced, updates>>

(* ---------------------------------------------------------------------- *)
(* A translator edits an object file of the target language                *)
(* ---------------------------------------------------------------------- *)
translate(obj, k) ==
    SelectSeq([i \in 1..Len(KeyUniverse) |->
                  <<KeyUniverse[i],
                    IF DictHas(obj, KeyUniverse[i]) THEN DictGet(obj, KeyUniverse[i])
                    ELSE Text(L10N_LANG, k)>>],
              LAMBDA e : e[1] = k \/ DictHas(obj, e[1]))

\* the strings translated so far in the chapter being localized
Translations ==
    LET dir == objs[<<L10N_CHAPTER, L10N_LANG>>]
        RECURSIVE total(_)
        total(S) == IF S = {} THEN 0
                    ELSE LET n == CHOOSE n \in S : TRUE
                         IN Len(dir[n]) + total(S \ {n})
    IN total(DOMAIN dir)

translator_edit ==
    /\ pc = "idle"
    /\ \E n \in DOMAIN objs[<<L10N_CHAPTER, L10N_LANG>>], k \in Keys(MaxFetchKeys) :
          /\ ~DictHas(objs[<<L10N_CHAPTER, L10N_LANG>>][n], k)
          /\ Translations < MaxEdits
          /\ objs' = [objs EXCEPT ![<<L10N_CHAPTER, L10N_LANG>>][n] = translate(@, k)]
    /\ last' = [task |-> "edit"]
    /\ UNCHANGED <<lang_json, sourcemap_json, dirs, sourcemaps, new_lang_file, pc,
                   synced, updates>>

\* the working tree holds one dump and no output yet
Init ==
    /\ lang_json = LangDoc(RawStrings("en", MaxFetchKeys, Keys(MaxFetchKeys)),
                           RawStrings("ja", MaxFetchKeys, Keys(MaxFetchKeys)))
    /\ sourcemap_json = SourcemapDoc(OtherSourceMap)
    /\ NoOutputs

Next ==
    \/ split_dump
    \/ init_lang
    \/ compile_lang(L10N_LANG, L10N_CHAPTER)
    \/ open_lang_json
    \/ open_sourcemap_json
    \/ urlopen_ok
    \/ urlopen_raises
    \/ translator_edit

Spec == Init /\ [][Next]_vars

(* ---------------------------------------------------------------------- *)
(* Vocabulary of the claims about split_dump                               *)
(* ---------------------------------------------------------------------- *)
RECURSIVE Num(_)
Num(digits) ==
    IF digits = <<>> THEN 0
    ELSE 10 * Num(SubSeq(digits, 1, Len(digits) - 1)) + digits[Len(digits)]

IndexOf(d, k) == CHOOSE i \in 1..Len(d) : d[i][1] = k
PerFileNames(c, l) == DOMAIN objs[<<c, l>>] \ {ORPHAN_FILE}
PerFileKeys(c, l) == UNION {KeySet(objs[<<c, l>>][n]) : n \in PerFileNames(c, l)}
OrphanKeys(c, l) ==
    IF ORPHAN_FILE \in DOMAIN objs[<<c, l>>]
    THEN KeySet(objs[<<c, l>>][ORPHAN_FILE]) ELSE {}
RawKeys(c, l) == KeySet(lang_json[c][l])
MappedKeys(c) == KeySet(sourcemap_json[c])
LocationOf(c, k) == DictGet(sourcemap_json[c], k)
SplitDone == synced /\ last.task = "split"

\* C1: after split_dump, for every chapter and language, the per-file keys and
\* the orphan keys together are exactly the raw keys other than "date"; no key is
\* in two per-file objects, none in both a per-file object and the orphan object
C1_Partition ==
    SplitDone =>
        \A c \in ChapterSet, l \in LangSet :
            /\ PerFileKeys(c, l) \cup OrphanKeys(c, l) = RawKeys(c, l) \ {"date"}
            /\ \A n1, n2 \in PerFileNames(c, l) :
                   n1 # n2 => KeySet(objs[<<c, l>>][n1]) \cap KeySet(objs[<<c, l>>][n2]) = {}
            /\ PerFileKeys(c, l) \cap OrphanKeys(c, l) = {}

\* a split that wrote two per-file objects and an orphan object, with a mapped key
\* that has no string and "date" in the raw strings
C1_Witness ==
    /\ SplitDone
    /\ \E l \in LangSet :
          /\ Cardinality(PerFileNames(L10N_CHAPTER, l)) = 2
          /\ OrphanKeys(L10N_CHAPTER, l) # {}
          /\ MappedKeys(L10N_CHAPTER) \ RawKeys(L10N_CHAPTER, l) # {}
          /\ "date" \in RawKeys(L10N_CHAPTER, l)

\* C2: the orphan object holds k iff k is a raw key, not "date", and absent from
\* the Raw Source Map; a key absent from the source map is in no per-file object;
\* a key the source map locates in a file, and that has a string, is in that
\* file's object and not in the orphan object
C2_OrphanIffUnmapped ==
    SplitDone =>
        \A c \in ChapterSet, l \in LangSet :
            /\ OrphanKeys(c, l) = (RawKeys(c, l) \ {"date"}) \ MappedKeys(c)
            /\ PerFileKeys(c, l) \subseteq MappedKeys(c)
            /\ \A k \in MappedKeys(c) \cap RawKeys(c, l) :
                   LET n == obj_file_name(LocationOf(c, k)[1])
                   IN /\ n \in DOMAIN objs[<<c, l>>]
                      /\ k \in KeySet(objs[<<c, l>>][n])
                      /\ k \notin OrphanKeys(c, l)

\* C3: in every per-file object a key on a smaller line comes before a key on a
\* larger line, and keys on the same line come in the order of the Raw Source Map
C3_CodePositionOrder ==
    SplitDone =>
        \A c \in ChapterSet, l \in LangSet :
            \A n \in PerFileNames(c, l) :
                LET d == objs[<<c, l>>][n]
                IN \A i, j \in 1..Len(d) :
                       i < j =>
                           LET a == LocationOf(c, d[i][1])
                               b == LocationOf(c, d[j][1])
                           IN \/ Num(a[2]) < Num(b[2])
                              \/ /\ a[2] = b[2]
                                 /\ IndexOf(sourcemap_json[c], d[i][1])
                                        < IndexOf(sourcemap_json[c], d[j][1])

\* the entries i < j of the chapter's Raw Source Map are the only two at their location
OnlyPair(c, i, j) ==
    LET sm == sourcemap_json[c]
    IN /\ i < j
       /\ sm[i][2] = sm[j][2]
       /\ \A h \in 1..Len(sm) : sm[h][2] = sm[i][2] => h \in {i, j}

Suffixed(lineno, n) == lineno \o <<Underscore>> \o Str(n)

\* C4 as stated: two keys at the same location get the position tokens "42"
\* (first encountered) and "42_1" (second encountered)
C4_BareThenOne ==
    SplitDone =>
        \A c \in ChapterSet :
            \A i, j \in 1..Len(sourcemap_json[c]) :
                OnlyPair(c, i, j) =>
                    LET sm == sourcemap_json[c]
                        loc == sm[i][2]
                        ch_sm == sourcemaps[c]
                        file_map == DictGet(ch_sm, loc[1])
                    IN /\ DictHas(file_map, loc[2])
                       /\ DictGet(file_map, loc[2]) = sm[i][1]
                       /\ DictHas(file_map, Suffixed(loc[2], 1))
                       /\ DictGet(file_map, Suffixed(loc[2], 1)) = sm[j][1]

\* C4 amended: two keys (and no third) at the same location, listed one right
\* after the other, the first at the start of the map or right after an entry
\* whose location no other key shares, get the tokens "42_1" and "42_2"; and no
\* key of a shared location is recorded at the bare line
C4_OneThenTwo ==
    SplitDone =>
        \A c \in ChapterSet :
            LET sm == sourcemap_json[c]
                dups == ch_dup_map(sm)
            IN /\ \A i, j \in 1..Len(sm) :
                      (/\ OnlyPair(c, i, j)
                       /\ j = i + 1
                       /\ (i = 1 \/ dups[sm[i - 1][2]] = 1)) =>
                          LET loc == sm[i][2]
                              file_map == DictGet(sourcemaps[c], loc[1])
                          IN /\ DictHas(file_map, Suffixed(loc[2], 1))
                             /\ DictGet(file_map, Suffixed(loc[2], 1)) = sm[i][1]
                             /\ DictHas(file_map, Suffixed(loc[2], 2))
                             /\ DictGet(file_map, Suffixed(loc[2], 2)) = sm[j][1]
                             /\ ~DictHas(file_map, loc[2])
               /\ \A i \in 1..Len(sm) :
                      dups[sm[i][2]] > 1 =>
                          \A f \in 1..Len(sourcemaps[c]) :
                              sourcemaps[c][f][1] = sm[i][2][1] =>
                                  ~DictHas(sourcemaps[c][f][2], sm[i][2][2])

\* a split of a source map with such a pair, the pair not at the start of the map
C4_Witness ==
    /\ SplitDone
    /\ \E i \in 2..(Len(sourcemap_json[L10N_CHAPTER]) - 1) :
          /\ OnlyPair(L10N_CHAPTER, i, i + 1)
          /\ ch_dup_map(sourcemap_json[L10N_CHAPTER])[sourcemap_json[L10N_CHAPTER][i - 1][2]] = 1

Outputs == <<dirs, objs, sourcemaps, new_lang_file>>

\* C7: split_dump run again on the same lang.json and sourcemap.json, from the
\* state its first run left, changes no output file and creates or deletes none
C7_Idempotent == [][(synced /\ last'.task = "split") => Outputs' = Outputs]_vars

\* a second run has completed, on outputs with per-file objects and an orphan object
C7_Witness ==
    /\ SplitDone
    /\ last.rerun
    /\ PerFileNames(L10N_CHAPTER, BASE_LANG) # {}
    /\ OrphanKeys(L10N_CHAPTER, BASE_LANG) # {}

(* ---------------------------------------------------------------------- *)
(* Vocabulary of the claims about compile_lang, init_lang and update       *)
(* ---------------------------------------------------------------------- *)
BaseObjs(c) == objs[<<c, BASE_LANG>>]
TargetObjs(c) == objs[<<c, L10N_LANG>>]
Compiled == last.task = "compile" /\ last.ok
BasePairs(c) == UNION {{<<n, k>> : k \in KeySet(BaseObjs(c)[n])} : n \in DOMAIN BaseObjs(c)}
HasTarget(c, n, k) == n \in DOMAIN TargetObjs(c) /\ DictHas(TargetObjs(c)[n], k)

\* C5: the compiled document maps every key of every base object file to the
\* value of the same-named target file if that holds the key, else to the base
\* value; it holds no key that only a target object has; the translated count is
\* the number of base keys with a target value and the total is the number of
\* compiled keys other than "date"
C5_MergeTargetOverBase ==
    Compiled =>
        LET c == L10N_CHAPTER
        IN /\ \A p \in BasePairs(c) :
                  /\ DictHas(new_lang_file, p[2])
                  /\ DictGet(new_lang_file, p[2]) =
                         IF HasTarget(c, p[1], p[2])
                         THEN DictGet(TargetObjs(c)[p[1]], p[2])
                         ELSE DictGet(BaseObjs(c)[p[1]], p[2])
           /\ KeySet(new_lang_file) \ {"date"} \subseteq {p[2] : p \in BasePairs(c)}
           /\ last.count_translated =
                  Cardinality({p \in BasePairs(c) : HasTarget(c, p[1], p[2])})
           /\ last.count_all = Cardinality(KeySet(new_lang_file) \ {"date"})

\* C6: init_lang leaves, in every chapter, the target obj directory with the file
\* names of the base obj directory: a missing file is created holding an empty
\* object, a target file with no base file of its name is deleted, every other
\* target file keeps its content; the base files are not touched
C6_InitLang ==
    [][(last'.task = "init" /\ last'.ok) =>
          \A c \in ChapterSet :
              /\ DOMAIN TargetObjs(c)' = DOMAIN BaseObjs(c)
              /\ \A n \in DOMAIN TargetObjs(c)' :
                     TargetObjs(c)'[n] =
                         IF n \in DOMAIN TargetObjs(c) THEN TargetObjs(c)[n] ELSE <<>>
              /\ BaseObjs(c)' = BaseObjs(c)]_vars

\* an init_lang that created a file, deleted a file and kept a translated file
C6_Witness ==
    /\ last.task = "init"
    /\ last.ok
    /\ \E n \in DOMAIN OBJ_FILES : <<L10N_CHAPTER, OBJ_FILES[n]>> \in last.created
    /\ <<L10N_CHAPTER, ORPHAN_FILE>> \in last.deleted
    /\ \E n \in DOMAIN TargetObjs(L10N_CHAPTER) : TargetObjs(L10N_CHAPTER)[n] # <<>>

\* the object files split_dump writes for the present inputs: one per source file
\* of the chapter's source map with a string, and the orphan file if there are orphans
EmittedNames(c, l) ==
    LET ch_sm == new_sourcemap(sourcemap_json[c])
        raw == lang_json[c][l]
        used == UNION {KeySet(obj_strings(ch_sm[i][2], raw)) : i \in 1..Len(ch_sm)}
    IN {obj_file_name(ch_sm[i][1]) : i \in {i \in 1..Len(ch_sm) : obj_strings(ch_sm[i][2], raw) # <<>>}}
       \cup (IF (KeySet(raw) \ {"date"}) \ used # {} THEN {ORPHAN_FILE} ELSE {})

\* C8: after split_dump, whatever earlier splits wrote, the object files of every
\* chapter and language are exactly those of the present inputs
C8_RegeneratedInFull ==
    SplitDone =>
        \A c \in ChapterSet, l \in LangSet : DOMAIN objs[<<c, l>>] = EmittedNames(c, l)

\* C9: no key is in two base-language object files, the translated count never
\* exceeds the total, and the progress is between 0 and 100
C9_NoSharedKey ==
    /\ \A c \in ChapterSet :
           \A n1, n2 \in DOMAIN BaseObjs(c) :
               n1 # n2 => KeySet(BaseObjs(c)[n1]) \cap KeySet(BaseObjs(c)[n2]) = {}
    /\ Compiled =>
           /\ last.count_translated <= last.count_all
           /\ last.l10n_progress \in 0..100

FileContent(filename) == IF filename = "lang.json" THEN lang_json ELSE sourcemap_json

\* C10: when a fetch fails, the task ends before split_dump starts and the local
\* file of that name holds what it held before the fetch was attempted
C10_FailedFetchKeepsFile ==
    (last.task = "fetch" /\ last.failed) =>
        /\ pc = "idle"
        /\ ~synced
        /\ FileContent(last.filename) = last.before

====
